---------------------------- MODULE Spec2Model ----------------------------
(***************************************************************************)
(* A model of the interpreter bridge of src/applepye.c: the three entry    *)
(* points applepye_initialize, applepye_finalize and applepye_execute,     *)
(* called by the threads of one host process around one embedded CPython   *)
(* interpreter.                                                            *)
(*                                                                         *)
(* The interpreter is modelled by what the bridge uses of it: whether it   *)
(* is initialized, which thread holds the global interpreter lock (GIL),   *)
(* the dictionary of module __main__ (the global namespace), the two       *)
(* attributes sys.stdout and sys.stderr, and the io.StringIO objects       *)
(* created so far.  The GIL is the interpreter's lock, not a mutex of the  *)
(* bridge: a thread that runs Python code inside PyRun_SimpleString hands  *)
(* it to a waiting thread whenever the evaluation loop honours a drop      *)
(* request (GilSwitch).  C API calls made by the bridge outside of         *)
(* PyRun_SimpleString never give it up.                                    *)
(*                                                                         *)
(* Text is a sequence of characters, each character a one-token string.   *)
(***************************************************************************)
EXTENDS Integers, Sequences, FiniteSets, TLC

(***************************************************************************)
(* Bounds of the model.                                                    *)
(***************************************************************************)
\* The number of applepye_execute calls the host makes in one behaviour.
MaxCalls == 2

\* The host threads that call into the bridge.
Threads == {"t1", "t2"}

\* The value of gil when no thread holds the GIL.
NoThread == "none"

\* The thread from which the host makes its lifecycle calls.
MainThread == "t1"

(***************************************************************************)
(* Python values, one record shape per kind of value.                      *)
(***************************************************************************)
Unbound == [unbound |-> TRUE]
NoneV == [none |-> TRUE]
IntV(n) == [int |-> n]
StrV(t) == [str |-> t]
BufV(i) == [buf |-> i]
RealV(c) == [real |-> c]
CodeV(s) == [code |-> s]

IsStr(v) == DOMAIN v = {"str"}
IsInt(v) == DOMAIN v = {"int"}
IsBuf(v) == DOMAIN v = {"buf"}
IsReal(v) == DOMAIN v = {"real"}
IsCode(v) == DOMAIN v = {"code"}

\* The character a C string ends at.
NUL == "NUL"
NL == "\n"

(***************************************************************************)
(* C strings and _dup_str.                                                 *)
(***************************************************************************)
NullPtr == [null |-> TRUE]
CStr(t) == [cstr |-> t]
NotReturned == [pending |-> TRUE]

\* strlen: the characters of s before its first NUL.
RECURSIVE StrLenPrefix(_)
StrLenPrefix(s) ==
    IF s = <<>> \/ Head(s) = NUL THEN <<>>
    ELSE <<Head(s)>> \o StrLenPrefix(Tail(s))

\* _dup_str(s): a malloc'ed copy of the C string s, or NULL when malloc fails
\* (mallocOk is the outcome of the malloc).
_dup_str(s, mallocOk) ==
    IF mallocOk THEN CStr(StrLenPrefix(s)) ELSE NullPtr

(***************************************************************************)
(* The fixed strings of applepye_execute.                                  *)
(***************************************************************************)
FailedCreate == <<"/* failed to create Python code string */">>
FailedSet == <<"/* failed to set __APPLEPYE_CODE__ */">>

(***************************************************************************)
(* The text Python writes.                                                 *)
(***************************************************************************)
DigitChar(d) ==
    CASE d = 0 -> "0" [] d = 1 -> "1" [] d = 2 -> "2" [] d = 3 -> "3"
      [] d = 4 -> "4" [] d = 5 -> "5" [] d = 6 -> "6" [] d = 7 -> "7"
      [] d = 8 -> "8" [] d = 9 -> "9"

RECURSIVE Digits(_)
Digits(n) ==
    IF n < 10 THEN <<DigitChar(n)>>
    ELSE Digits(n \div 10) \o <<DigitChar(n % 10)>>

\* str(v), as print(v) writes it.
PyStr(v) ==
    CASE IsInt(v) -> Digits(v.int)
      [] IsStr(v) -> v.str
      [] OTHER -> <<"None">>

\* What print(v) writes: str(v) and a newline.
PrintText(v) == PyStr(v) \o <<NL>>

\* What traceback.print_exc() and PyErr_Print() write for a fault of kind k.
TraceText(k) == <<"Traceback (most recent call last):", NL, k, NL>>

(***************************************************************************)
(* The names of the global namespace the model follows: the user's x and   *)
(* the names the wrapper of applepye_execute binds in the same dictionary. *)
(***************************************************************************)
CODE_KEY == "__APPLEPYE_CODE__"
RESULT_KEY == "result"
OLD_STDOUT == "_applepye_old_stdout"
OLD_STDERR == "_applepye_old_stderr"
BUF == "_applepye_buf"
GNames == {"x", CODE_KEY, RESULT_KEY, OLD_STDOUT, OLD_STDERR, BUF}

\* The names applepye_execute itself binds in the global namespace.
BridgeNames == {CODE_KEY, RESULT_KEY, OLD_STDOUT, OLD_STDERR, BUF}

EmptyGlobals == [n \in GNames |-> Unbound]

(***************************************************************************)
(* The sources the host passes to applepye_execute, and what each does     *)
(* when Python runs it: whether eval() compiles it (an expression), the    *)
(* steps it takes in order, and the value an expression yields.            *)
(***************************************************************************)
NullSrc == "<NULL>"
BadUtf8Src == "\\xff"

Op(o, n, a) == [op |-> o, name |-> n, arg |-> a]

Sources ==
    { "",
      "x = 5",
      "x + 1",
      "x = globals().get('x', 0) + 1; print(x)",
      "print('a')",
      "print('a') or 7",
      "print('a'); 1/0",
      "print('a') or 1/0",
      "print('a'); raise KeyboardInterrupt",
      "print('a'); raise SystemExit",
      "__import__('sys').exit()",
      "result = 5",
      "_applepye_old_stdout = None",
      "'a\\0b'",
      "del __APPLEPYE_CODE__",
      BadUtf8Src }

\* The faults eval() and exec() raise that "except Exception" catches.
ExceptionKinds == {"SyntaxError", "NameError", "ZeroDivisionError"}
\* The faults that derive from BaseException only.
BaseOnlyKinds == {"KeyboardInterrupt", "SystemExit"}

PrintA == Op("print", "", StrV(<<"a">>))

Program(s) ==
    CASE s = "x = 5" ->
           [expr |-> FALSE, ops |-> <<Op("bind", "x", IntV(5))>>, val |-> "none"]
      [] s = "x + 1" ->
           [expr |-> TRUE, ops |-> <<>>, val |-> "x+1"]
      [] s = "x = globals().get('x', 0) + 1; print(x)" ->
           [expr |-> FALSE,
            ops |-> <<Op("load", "x", NoneV), Op("store", "x", NoneV),
                      Op("printname", "x", NoneV)>>,
            val |-> "none"]
      [] s = "print('a')" ->
           [expr |-> TRUE, ops |-> <<PrintA>>, val |-> "none"]
      [] s = "print('a') or 7" ->
           [expr |-> TRUE, ops |-> <<PrintA>>, val |-> "7"]
      [] s = "print('a'); 1/0" ->
           [expr |-> FALSE,
            ops |-> <<PrintA, Op("raise", "ZeroDivisionError", NoneV)>>,
            val |-> "none"]
      [] s = "print('a') or 1/0" ->
           [expr |-> TRUE,
            ops |-> <<PrintA, Op("raise", "ZeroDivisionError", NoneV)>>,
            val |-> "none"]
      [] s = "print('a'); raise KeyboardInterrupt" ->
           [expr |-> FALSE,
            ops |-> <<PrintA, Op("raise", "KeyboardInterrupt", NoneV)>>,
            val |-> "none"]
      [] s = "print('a'); raise SystemExit" ->
           [expr |-> FALSE,
            ops |-> <<PrintA, Op("raise", "SystemExit", NoneV)>>,
            val |-> "none"]
      [] s = "__import__('sys').exit()" ->
           [expr |-> TRUE, ops |-> <<Op("raise", "SystemExit", NoneV)>>,
            val |-> "none"]
      [] s = "result = 5" ->
           [expr |-> FALSE, ops |-> <<Op("bind", RESULT_KEY, IntV(5))>>,
            val |-> "none"]
      [] s = "_applepye_old_stdout = None" ->
           [expr |-> FALSE, ops |-> <<Op("bind", OLD_STDOUT, NoneV)>>,
            val |-> "none"]
      [] s = "'a\\0b'" ->
           [expr |-> TRUE, ops |-> <<>>, val |-> "a0b"]
      [] s = "del __APPLEPYE_CODE__" ->
           [expr |-> FALSE, ops |-> <<Op("del", CODE_KEY, NoneV)>>,
            val |-> "none"]
      [] OTHER ->
           [expr |-> FALSE, ops |-> <<>>, val |-> "none"]

\* The fault the expression's value raises in namespace g ("" when none).
ValueFault(p, g) ==
    IF p.val = "x+1" /\ ~IsInt(g["x"]) THEN "NameError" ELSE ""

\* The value of the expression in namespace g.
ValueOf(p, g) ==
    CASE p.val = "x+1" -> IntV(g["x"].int + 1)
      [] p.val = "7" -> IntV(7)
      [] p.val = "a0b" -> StrV(<<"a", NUL, "b">>)
      [] OTHER -> NoneV

\* The fault step o raises in namespace g ("" when none).
OpFault(o, g) ==
    CASE o.op = "raise" -> o.name
      [] o.op = "printname" -> IF g[o.name] = Unbound THEN "NameError" ELSE ""
      [] o.op = "del" -> IF g[o.name] = Unbound THEN "NameError" ELSE ""
      [] OTHER -> ""

\* What step o writes to sys.stdout in namespace g.
OpOutput(o, g) ==
    CASE o.op = "print" -> PrintText(o.arg)
      [] o.op = "printname" -> PrintText(g[o.name])
      [] OTHER -> <<>>

\* The namespace after step o of a thread whose evaluation stack holds tmpv.
OpGlobals(o, g, tmpv) ==
    CASE o.op = "bind" -> [g EXCEPT ![o.name] = o.arg]
      [] o.op = "store" -> [g EXCEPT ![o.name] = IntV(tmpv + 1)]
      [] o.op = "del" -> [g EXCEPT ![o.name] = Unbound]
      [] OTHER -> g

\* The evaluation stack after step o.
OpTmp(o, g, tmpv) ==
    IF o.op = "load" THEN (IF IsInt(g[o.name]) THEN g[o.name].int ELSE 0)
    ELSE tmpv

(***************************************************************************)
(* The state.                                                              *)
(***************************************************************************)
VARIABLES
    initialized,  \* Py_IsInitialized()
    instances,    \* the number of live interpreter instances
    gil,          \* the thread that holds the GIL, or NoThread
    proc,         \* the host process: "running", "exited" or "crashed"
    globals,      \* the dictionary of __main__
    sys_stdout,   \* the attribute sys.stdout
    sys_stderr,   \* the attribute sys.stderr
    bufs,         \* the contents of the io.StringIO objects created so far
    realOut,      \* what was written to the process's real standard output
    realErr,      \* what was written to the process's real standard error
    pc,           \* where each thread is
    code_c,       \* the argument of each thread's applepye_execute call
                  \* in this interpreter instance
    code,         \* the parameter of each thread's _applepye_run call
    ip,           \* the next step of the source each thread runs
    tmp,          \* each thread's evaluation stack
    out,          \* the local out of each thread's applepye_execute call
    ret,          \* what each thread's last applepye_execute call in this
                  \* interpreter instance returned
    ncalls,       \* the applepye_execute calls made so far
    srcs,         \* the sources the host passes in this behaviour
    lastOp,       \* the last call the host entered or completed (history)
    bound,        \* what the sources' own steps last bound each name to
                  \* in this interpreter instance (history)
    obs           \* what each thread's current or last call did in this
                  \* interpreter instance (history)

interp == <<initialized, instances, globals, sys_stdout, sys_stderr, bufs>>
streams == <<realOut, realErr>>
locals == <<code_c, code, ip, tmp, out, ret>>
hist == <<srcs, bound, obs>>
vars == <<initialized, instances, gil, proc, globals, sys_stdout, sys_stderr,
          bufs, realOut, realErr, pc, code_c, code, ip, tmp, out, ret, ncalls,
          srcs, lastOp, bound, obs>>

LifecyclePcs == {"init", "init_save", "fin", "fin_ensure", "fin_finalize",
                 "fin_release"}
\* Where a thread is inside PyRun_SimpleString(wrapper).
WrapperPcs == {"w_save", "w_newbuf", "w_redirect", "w_call", "eval", "exec",
               "w_getvalue", "w_restore"}
ExecutePcs == {"nullret", "ensure", "construct", "bind", "readresult",
               "cleanup", "release"} \cup WrapperPcs

NoObs ==
    [called |-> FALSE, alone |-> TRUE, entry |-> <<Unbound, Unbound>>,
     errAt |-> <<>>, wrote |-> <<>>,
     srcOut |-> <<>>, val |-> Unbound, vline |-> <<>>, ran |-> NullSrc,
     fault |-> "", stage |-> "", runs |-> 0]

\* Init but for the sources the host passes.
InitState ==
    /\ initialized = FALSE
    /\ instances = 0
    /\ gil = NoThread
    /\ proc = "running"
    /\ globals = EmptyGlobals
    /\ sys_stdout = Unbound
    /\ sys_stderr = Unbound
    /\ bufs = <<>>
    /\ realOut = <<>>
    /\ realErr = <<>>
    /\ pc = [t \in Threads |-> "idle"]
    /\ code_c = [t \in Threads |-> NullSrc]
    /\ code = [t \in Threads |-> NullSrc]
    /\ ip = [t \in Threads |-> 0]
    /\ tmp = [t \in Threads |-> 0]
    /\ out = [t \in Threads |-> NotReturned]
    /\ ret = [t \in Threads |-> NotReturned]
    /\ ncalls = 0
    /\ lastOp = ""
    /\ bound = EmptyGlobals
    /\ obs = [t \in Threads |-> NoObs]

Init == InitState /\ srcs = Sources \cup {NullSrc}

(***************************************************************************)
(* applepye_initialize and applepye_finalize.  The host makes a lifecycle  *)
(* call only while no other call is in progress.                           *)
(***************************************************************************)
Quiescent(t) == \A u \in Threads \ {t} : pc[u] = "idle"

\* A thread enters applepye_initialize.
CallInitialize(t) ==
    /\ proc = "running"
    /\ t = MainThread
    /\ pc[t] = "idle"
    /\ Quiescent(t)
    /\ pc' = [pc EXCEPT ![t] = "init"]
    /\ lastOp' = "initialize-entered"
    /\ UNCHANGED <<interp, gil, proc, streams, locals, ncalls, hist>>

\* A bring-up that does not look at Py_IsInitialized().
InitUnguarded == TRUE

\* The guard of applepye_initialize: the bring-up runs only when this holds.
InitGuard == ~initialized

\* Py_Initialize() and PyEval_InitThreads(): a fresh interpreter, whose GIL
\* the calling thread holds; or nothing, when the guard is false.
InitBringUp(t) ==
    /\ proc = "running"
    /\ pc[t] = "init"
    /\ IF InitGuard
       THEN /\ initialized' = TRUE
            /\ instances' = instances + 1
            /\ gil' = t
            /\ globals' = EmptyGlobals
            /\ sys_stdout' = RealV("stdout")
            /\ sys_stderr' = RealV("stderr")
            /\ bufs' = <<>>
            /\ pc' = [pc EXCEPT ![t] = "init_save"]
            /\ UNCHANGED lastOp
       ELSE /\ pc' = [pc EXCEPT ![t] = "idle"]
            /\ lastOp' = "initialize-noop"
            /\ UNCHANGED <<interp, gil>>
    /\ UNCHANGED <<proc, streams, locals, ncalls, hist>>

\* A bring-up that returns without PyEval_SaveThread().
InitKeepsGil(t) ==
    /\ proc = "running"
    /\ pc[t] = "init_save"
    /\ pc' = [pc EXCEPT ![t] = "idle"]
    /\ lastOp' = "initialize"
    /\ UNCHANGED <<interp, gil, proc, streams, locals, ncalls, hist>>

\* PyEval_SaveThread(): the initializing thread gives the GIL up.
InitSaveThread(t) ==
    /\ proc = "running"
    /\ pc[t] = "init_save"
    /\ gil' = NoThread
    /\ pc' = [pc EXCEPT ![t] = "idle"]
    /\ lastOp' = "initialize"
    /\ UNCHANGED <<interp, proc, streams, locals, ncalls, hist>>

\* A thread enters applepye_finalize.
CallFinalize(t) ==
    /\ proc = "running"
    /\ t = MainThread
    /\ pc[t] = "idle"
    /\ Quiescent(t)
    /\ pc' = [pc EXCEPT ![t] = "fin"]
    /\ lastOp' = "finalize-entered"
    /\ UNCHANGED <<interp, gil, proc, streams, locals, ncalls, hist>>

\* The guard of applepye_finalize: the teardown runs only when this holds.
FinGuard == initialized

FinCheck(t) ==
    /\ proc = "running"
    /\ pc[t] = "fin"
    /\ IF FinGuard
       THEN /\ pc' = [pc EXCEPT ![t] = "fin_ensure"]
            /\ UNCHANGED lastOp
       ELSE /\ pc' = [pc EXCEPT ![t] = "idle"]
            /\ lastOp' = "finalize-noop"
    /\ UNCHANGED <<interp, gil, proc, streams, locals, ncalls, hist>>

\* PyGILState_Ensure() of applepye_finalize.
FinEnsure(t) ==
    /\ proc = "running"
    /\ pc[t] = "fin_ensure"
    /\ gil = NoThread
    /\ gil' = t
    /\ pc' = [pc EXCEPT ![t] = "fin_finalize"]
    /\ UNCHANGED <<interp, proc, streams, locals, ncalls, lastOp, hist>>

\* Py_Finalize(): the interpreter, its namespace, its streams and its GIL
\* are destroyed.  The records of the calls made in this instance end with
\* it.
FinFinalize(t) ==
    /\ proc = "running"
    /\ pc[t] = "fin_finalize"
    /\ initialized' = FALSE
    /\ instances' = instances - 1
    /\ gil' = NoThread
    /\ globals' = EmptyGlobals
    /\ sys_stdout' = Unbound
    /\ sys_stderr' = Unbound
    /\ bufs' = <<>>
    /\ bound' = EmptyGlobals
    /\ obs' = [u \in Threads |-> NoObs]
    /\ code_c' = [u \in Threads |-> NullSrc]
    /\ code' = [u \in Threads |-> NullSrc]
    /\ ret' = [u \in Threads |-> NotReturned]
    /\ pc' = [pc EXCEPT ![t] = "fin_release"]
    /\ UNCHANGED <<proc, streams, ip, tmp, out, ncalls, srcs, lastOp>>

\* PyGILState_Release(gstate) on the interpreter Py_Finalize() has just
\* destroyed: undefined, it returns or it brings the process down.
FinRelease(t) ==
    /\ proc = "running"
    /\ pc[t] = "fin_release"
    /\ \E crash \in BOOLEAN :
         /\ proc' = IF crash THEN "crashed" ELSE "running"
         /\ pc' = [pc EXCEPT ![t] = "idle"]
    /\ lastOp' = "finalize"
    /\ UNCHANGED <<interp, gil, streams, locals, ncalls, hist>>

applepye_initialize(t) ==
    CallInitialize(t) \/ InitBringUp(t) \/ InitSaveThread(t)

applepye_finalize(t) ==
    CallFinalize(t) \/ FinCheck(t) \/ FinEnsure(t) \/ FinFinalize(t)
      \/ FinRelease(t)

(***************************************************************************)
(* Writing to a stream object: an io.StringIO takes the text, a real       *)
(* stream of the process passes it on, and print() and the traceback       *)
(* printers write nothing when the stream is None.                         *)
(***************************************************************************)
Write(ch, text) ==
    /\ bufs' = IF IsBuf(ch) /\ ch.buf \in DOMAIN bufs
               THEN [bufs EXCEPT ![ch.buf] = @ \o text]
               ELSE bufs
    /\ realOut' = IF ch = RealV("stdout") THEN realOut \o text ELSE realOut
    /\ realErr' = IF ch = RealV("stderr") THEN realErr \o text ELSE realErr

\* A fault of kind k leaves the wrapper: PyRun_SimpleString calls
\* PyErr_Print(), which ends the process on SystemExit and otherwise prints
\* the trace to sys.stderr; the rest of the wrapper is not run.  o is the
\* thread's history so far.
Unhandled(t, k, o) ==
    IF k = "SystemExit"
    THEN /\ proc' = "exited"
         /\ obs' = [obs EXCEPT ![t] = o]
         /\ UNCHANGED <<pc, bufs, realOut, realErr>>
    ELSE /\ Write(sys_stderr, TraceText(k))
         /\ obs' = [obs EXCEPT ![t] = [o EXCEPT !.wrote = @ \o TraceText(k)]]
         /\ pc' = [pc EXCEPT ![t] = "readresult"]
         /\ UNCHANGED proc

(***************************************************************************)
(* applepye_execute.                                                       *)
(***************************************************************************)
NoLifecycleCall == \A u \in Threads : pc[u] \notin LifecyclePcs

\* A thread calls applepye_execute(s) and tests code_c.
ExecuteEnter(t, s) ==
    /\ proc = "running"
    /\ pc[t] = "idle"
    /\ NoLifecycleCall
    /\ ncalls < MaxCalls
    /\ ncalls' = ncalls + 1
    /\ lastOp' = "execute"
    /\ code_c' = [code_c EXCEPT ![t] = s]
    /\ obs' = [u \in Threads |->
                 IF u = t
                 THEN [NoObs EXCEPT !.called = TRUE,
                                    !.alone = Quiescent(t),
                                    !.entry = <<sys_stdout, sys_stderr>>,
                                    !.errAt = realErr]
                 ELSE IF pc[u] \in ExecutePcs
                 THEN [obs[u] EXCEPT !.alone = FALSE]
                 ELSE obs[u]]
    /\ ret' = [ret EXCEPT ![t] = NotReturned]
    /\ pc' = [pc EXCEPT ![t] = IF s = NullSrc THEN "nullret" ELSE "ensure"]
    /\ UNCHANGED <<interp, gil, proc, streams, code, ip, tmp, out, srcs,
                   bound>>

\* if (!code_c) return _dup_str("");
ReturnEmpty(t) ==
    /\ proc = "running"
    /\ pc[t] = "nullret"
    /\ \E mallocOk \in BOOLEAN :
         ret' = [ret EXCEPT ![t] = _dup_str(<<>>, mallocOk)]
    /\ pc' = [pc EXCEPT ![t] = "idle"]
    /\ UNCHANGED <<interp, gil, proc, streams, code_c, code, ip, tmp, out,
                   ncalls, lastOp, hist>>

\* PyGILState_Ensure().  Without an interpreter it brings the process down.
Ensure(t) ==
    /\ proc = "running"
    /\ pc[t] = "ensure"
    /\ IF ~initialized
       THEN /\ proc' = "crashed"
            /\ UNCHANGED <<gil, pc>>
       ELSE /\ gil = NoThread
            /\ gil' = t
            /\ pc' = [pc EXCEPT ![t] = "construct"]
            /\ UNCHANGED proc
    /\ UNCHANGED <<interp, streams, locals, ncalls, lastOp, hist>>

\* PyUnicode_FromString(code_c): fails on bytes that are not UTF-8 and when
\* memory is short; the call then gives the GIL up and returns.
Construct(t) ==
    /\ proc = "running"
    /\ pc[t] = "construct"
    /\ gil = t
    /\ \E allocOk \in BOOLEAN :
         IF allocOk /\ code_c[t] # BadUtf8Src
         THEN /\ pc' = [pc EXCEPT ![t] = "bind"]
              /\ UNCHANGED <<gil, ret>>
         ELSE \E mallocOk \in BOOLEAN :
                /\ gil' = NoThread
                /\ ret' = [ret EXCEPT ![t] = _dup_str(FailedCreate, mallocOk)]
                /\ pc' = [pc EXCEPT ![t] = "idle"]
    /\ UNCHANGED <<interp, proc, streams, code_c, code, ip, tmp, out, ncalls,
                   lastOp, hist>>

\* PyDict_SetItemString(py_dict, "__APPLEPYE_CODE__", py_code_obj).
Bind(t) ==
    /\ proc = "running"
    /\ pc[t] = "bind"
    /\ gil = t
    /\ \E allocOk \in BOOLEAN :
         IF allocOk
         THEN /\ globals' = [globals EXCEPT ![CODE_KEY] = CodeV(code_c[t])]
              /\ pc' = [pc EXCEPT ![t] = "w_save"]
              /\ UNCHANGED <<gil, ret>>
         ELSE \E mallocOk \in BOOLEAN :
                /\ gil' = NoThread
                /\ ret' = [ret EXCEPT ![t] = _dup_str(FailedSet, mallocOk)]
                /\ pc' = [pc EXCEPT ![t] = "idle"]
                /\ UNCHANGED globals
    /\ UNCHANGED <<initialized, instances, sys_stdout, sys_stderr, bufs, proc,
                   streams, code_c, code, ip, tmp, out, ncalls, lastOp, hist>>

\* import sys, io; _applepye_old_stdout = sys.stdout;
\* _applepye_old_stderr = sys.stderr
W_save(t) ==
    /\ proc = "running"
    /\ pc[t] = "w_save"
    /\ gil = t
    /\ globals' = [globals EXCEPT ![OLD_STDOUT] = sys_stdout,
                                  ![OLD_STDERR] = sys_stderr]
    /\ pc' = [pc EXCEPT ![t] = "w_newbuf"]
    /\ UNCHANGED <<initialized, instances, sys_stdout, sys_stderr, bufs, gil,
                   proc, streams, locals, ncalls, lastOp, hist>>

\* _applepye_buf = io.StringIO()
W_newbuf(t) ==
    /\ proc = "running"
    /\ pc[t] = "w_newbuf"
    /\ gil = t
    /\ bufs' = Append(bufs, <<>>)
    /\ globals' = [globals EXCEPT ![BUF] = BufV(Len(bufs) + 1)]
    /\ pc' = [pc EXCEPT ![t] = "w_redirect"]
    /\ UNCHANGED <<initialized, instances, sys_stdout, sys_stderr, gil, proc,
                   streams, locals, ncalls, lastOp, hist>>

\* sys.stdout = _applepye_buf; sys.stderr = _applepye_buf
W_redirect(t) ==
    /\ proc = "running"
    /\ pc[t] = "w_redirect"
    /\ gil = t
    /\ sys_stdout' = globals[BUF]
    /\ sys_stderr' = globals[BUF]
    /\ pc' = [pc EXCEPT ![t] = "w_call"]
    /\ UNCHANGED <<initialized, instances, globals, bufs, gil, proc, streams,
                   locals, ncalls, lastOp, hist>>

\* def _applepye_run(code); _applepye_run(__APPLEPYE_CODE__), up to eval()'s
\* compilation of the source: a source that is no expression raises
\* SyntaxError there, which "except Exception" turns into exec().
W_call(t) ==
    /\ proc = "running"
    /\ pc[t] = "w_call"
    /\ gil = t
    /\ IF IsCode(globals[CODE_KEY])
       THEN LET s == globals[CODE_KEY].code
                isExpr == Program(s).expr
            IN /\ code' = [code EXCEPT ![t] = s]
               /\ ip' = [ip EXCEPT ![t] = 1]
               /\ pc' = [pc EXCEPT ![t] = IF isExpr THEN "eval" ELSE "exec"]
               /\ obs' = [obs EXCEPT ![t].ran = s, ![t].runs = 1,
                            ![t].fault = IF isExpr THEN "" ELSE "SyntaxError",
                            ![t].stage = IF isExpr THEN "" ELSE "eval"]
               /\ UNCHANGED <<proc, bufs, streams>>
       ELSE /\ Unhandled(t, "NameError", obs[t])
            /\ UNCHANGED <<code, ip>>
    /\ UNCHANGED <<initialized, instances, globals, sys_stdout, sys_stderr,
                   gil, code_c, tmp, out, ret, ncalls, srcs, lastOp, bound>>

\* One step of the source, run by eval() or by exec(): what it prints goes
\* to sys.stdout, what it binds goes to the global namespace.
SourceStep(t, o) ==
    LET text == OpOutput(o, globals)
    IN /\ Write(sys_stdout, text)
       /\ globals' = OpGlobals(o, globals, tmp[t])
       /\ bound' = OpGlobals(o, bound, tmp[t])
       /\ tmp' = [tmp EXCEPT ![t] = OpTmp(o, globals, tmp[t])]
       /\ ip' = [ip EXCEPT ![t] = @ + 1]
       /\ obs' = [obs EXCEPT ![t].wrote = @ \o text, ![t].srcOut = @ \o text]
       /\ UNCHANGED <<pc, proc>>

\* val = eval(code, globals()): the next step of the expression.  A fault
\* "except Exception" catches starts exec(code, globals()) from the start.
EvalStep(t) ==
    /\ proc = "running"
    /\ pc[t] = "eval"
    /\ gil = t
    /\ ip[t] <= Len(Program(code[t]).ops)
    /\ LET o == Program(code[t]).ops[ip[t]]
           f == OpFault(o, globals)
       IN IF f = ""
          THEN SourceStep(t, o)
          ELSE IF f \in ExceptionKinds
          THEN /\ pc' = [pc EXCEPT ![t] = "exec"]
               /\ ip' = [ip EXCEPT ![t] = 1]
               /\ tmp' = [tmp EXCEPT ![t] = 0]
               /\ obs' = [obs EXCEPT ![t].fault = f, ![t].stage = "eval",
                                     ![t].runs = @ + 1]
               /\ UNCHANGED <<globals, bound, bufs, streams, proc>>
          ELSE /\ Unhandled(t, f, [obs[t] EXCEPT !.fault = f, !.stage = "eval"])
               /\ UNCHANGED <<globals, bound, ip, tmp>>
    /\ UNCHANGED <<initialized, instances, sys_stdout, sys_stderr, gil, code_c,
                   code, out, ret, ncalls, srcs, lastOp>>

\* The expression has run: it yields its value or its fault, and
\* "if val is not None: print(val)" writes the value line.
EvalEnd(t) ==
    /\ proc = "running"
    /\ pc[t] = "eval"
    /\ gil = t
    /\ ip[t] > Len(Program(code[t]).ops)
    /\ LET p == Program(code[t])
           f == ValueFault(p, globals)
       IN IF f # ""
          THEN /\ pc' = [pc EXCEPT ![t] = "exec"]
               /\ ip' = [ip EXCEPT ![t] = 1]
               /\ obs' = [obs EXCEPT ![t].fault = f, ![t].stage = "eval",
                                     ![t].runs = @ + 1]
               /\ UNCHANGED <<bufs, streams>>
          ELSE LET v == ValueOf(p, globals)
                   text == IF v # NoneV THEN PrintText(v) ELSE <<>>
               IN /\ Write(sys_stdout, text)
                  /\ obs' = [obs EXCEPT ![t].wrote = @ \o text,
                                        ![t].val = v,
                                        ![t].vline = text]
                  /\ pc' = [pc EXCEPT ![t] = "w_getvalue"]
                  /\ ip' = [ip EXCEPT ![t] = 0]
    /\ tmp' = [tmp EXCEPT ![t] = 0]
    /\ UNCHANGED <<initialized, instances, globals, sys_stdout, sys_stderr,
                   gil, proc, code_c, code, out, ret, ncalls, srcs, lastOp,
                   bound>>

\* exec(code, globals()): the next step of the statements.  A fault
\* "except Exception" catches is printed by traceback.print_exc().
ExecStep(t) ==
    /\ proc = "running"
    /\ pc[t] = "exec"
    /\ gil = t
    /\ ip[t] <= Len(Program(code[t]).ops)
    /\ LET o == Program(code[t]).ops[ip[t]]
           f == OpFault(o, globals)
       IN IF f = ""
          THEN SourceStep(t, o)
          ELSE IF f \in ExceptionKinds
          THEN /\ Write(sys_stderr, TraceText(f))
               /\ pc' = [pc EXCEPT ![t] = "w_getvalue"]
               /\ ip' = [ip EXCEPT ![t] = 0]
               /\ tmp' = [tmp EXCEPT ![t] = 0]
               /\ obs' = [obs EXCEPT ![t].fault = f, ![t].stage = "exec",
                                     ![t].wrote = @ \o TraceText(f)]
               /\ UNCHANGED <<globals, bound, proc>>
          ELSE /\ Unhandled(t, f, [obs[t] EXCEPT !.fault = f, !.stage = "exec"])
               /\ UNCHANGED <<globals, bound, ip, tmp>>
    /\ UNCHANGED <<initialized, instances, sys_stdout, sys_stderr, gil, code_c,
                   code, out, ret, ncalls, srcs, lastOp>>

\* exec() has run the last statement.
ExecEnd(t) ==
    /\ proc = "running"
    /\ pc[t] = "exec"
    /\ gil = t
    /\ ip[t] > Len(Program(code[t]).ops)
    /\ pc' = [pc EXCEPT ![t] = "w_getvalue"]
    /\ ip' = [ip EXCEPT ![t] = 0]
    /\ tmp' = [tmp EXCEPT ![t] = 0]
    /\ UNCHANGED <<interp, gil, proc, streams, code_c, code, out, ret, ncalls,
                   lastOp, hist>>

\* result = _applepye_buf.getvalue()
W_getvalue(t) ==
    /\ proc = "running"
    /\ pc[t] = "w_getvalue"
    /\ gil = t
    /\ IF IsBuf(globals[BUF])
       THEN /\ globals' = [globals EXCEPT
                             ![RESULT_KEY] = StrV(bufs[globals[BUF].buf])]
            /\ pc' = [pc EXCEPT ![t] = "w_restore"]
            /\ UNCHANGED <<proc, bufs, streams, obs>>
       ELSE /\ Unhandled(t, "NameError", obs[t])
            /\ UNCHANGED globals
    /\ UNCHANGED <<initialized, instances, sys_stdout, sys_stderr, gil, locals,
                   ncalls, srcs, lastOp, bound>>

\* sys.stdout = _applepye_old_stdout; sys.stderr = _applepye_old_stderr
W_restore(t) ==
    /\ proc = "running"
    /\ pc[t] = "w_restore"
    /\ gil = t
    /\ sys_stdout' = globals[OLD_STDOUT]
    /\ sys_stderr' = globals[OLD_STDERR]
    /\ pc' = [pc EXCEPT ![t] = "readresult"]
    /\ UNCHANGED <<initialized, instances, globals, bufs, gil, proc, streams,
                   locals, ncalls, lastOp, hist>>

\* PyDict_GetItemString(py_dict, "result") and the copy into out.
ReadResult(t) ==
    /\ proc = "running"
    /\ pc[t] = "readresult"
    /\ gil = t
    /\ \E mallocOk \in BOOLEAN :
         out' = [out EXCEPT ![t] =
                   IF IsStr(globals[RESULT_KEY])
                   THEN _dup_str(globals[RESULT_KEY].str, mallocOk)
                   ELSE _dup_str(<<>>, mallocOk)]
    /\ pc' = [pc EXCEPT ![t] = "cleanup"]
    /\ UNCHANGED <<interp, gil, proc, streams, code_c, code, ip, tmp, ret,
                   ncalls, lastOp, hist>>

\* PyDict_DelItemString of "__APPLEPYE_CODE__" and of "result".
Cleanup(t) ==
    /\ proc = "running"
    /\ pc[t] = "cleanup"
    /\ gil = t
    /\ globals' = [globals EXCEPT ![CODE_KEY] = Unbound,
                                  ![RESULT_KEY] = Unbound]
    /\ pc' = [pc EXCEPT ![t] = "release"]
    /\ UNCHANGED <<initialized, instances, sys_stdout, sys_stderr, bufs, gil,
                   proc, streams, locals, ncalls, lastOp, hist>>

\* A return of out that leaves PyGILState_Release(gstate) out.
ReleaseKeepsGil(t) ==
    /\ proc = "running"
    /\ pc[t] = "release"
    /\ gil = t
    /\ ret' = [ret EXCEPT ![t] = out[t]]
    /\ out' = [out EXCEPT ![t] = NotReturned]
    /\ pc' = [pc EXCEPT ![t] = "idle"]
    /\ UNCHANGED <<interp, gil, proc, streams, code_c, code, ip, tmp, ncalls,
                   lastOp, hist>>

\* PyGILState_Release(gstate); return out.
Release(t) ==
    /\ proc = "running"
    /\ pc[t] = "release"
    /\ gil = t
    /\ gil' = NoThread
    /\ ret' = [ret EXCEPT ![t] = out[t]]
    /\ out' = [out EXCEPT ![t] = NotReturned]
    /\ pc' = [pc EXCEPT ![t] = "idle"]
    /\ UNCHANGED <<interp, proc, streams, code_c, code, ip, tmp, ncalls,
                   lastOp, hist>>

\* The evaluation loop of thread t, inside PyRun_SimpleString, honours a
\* drop request: the GIL goes to thread u, which waits for it in
\* PyGILState_Ensure() or in the evaluation loop.
GilSwitch(t, u) ==
    /\ proc = "running"
    /\ gil = t
    /\ u # t
    /\ pc[t] \in WrapperPcs
    /\ initialized
    /\ pc[u] \in WrapperPcs \cup {"ensure"}
    /\ gil' = u
    /\ pc' = [pc EXCEPT ![u] = IF pc[u] = "ensure" THEN "construct" ELSE @]
    /\ UNCHANGED <<interp, proc, streams, locals, ncalls, lastOp, hist>>

\* A thread that gave the GIL up in the evaluation loop takes it again once
\* the holder has released it.
GilReacquire(t) ==
    /\ proc = "running"
    /\ initialized
    /\ gil = NoThread
    /\ pc[t] \in WrapperPcs
    /\ gil' = t
    /\ UNCHANGED <<interp, proc, streams, pc, locals, ncalls, lastOp, hist>>

applepye_execute(t) ==
    \/ \E s \in srcs : ExecuteEnter(t, s)
    \/ ReturnEmpty(t) \/ Ensure(t) \/ Construct(t) \/ Bind(t)
    \/ W_save(t) \/ W_newbuf(t) \/ W_redirect(t) \/ W_call(t)
    \/ EvalStep(t) \/ EvalEnd(t) \/ ExecStep(t) \/ ExecEnd(t)
    \/ W_getvalue(t) \/ W_restore(t)
    \/ ReadResult(t) \/ Cleanup(t) \/ Release(t)

Next ==
    \/ \E t \in Threads : applepye_initialize(t)
    \/ \E t \in Threads : applepye_finalize(t)
    \/ \E t \in Threads : applepye_execute(t)
    \/ \E t, u \in Threads : GilSwitch(t, u)
    \/ \E t \in Threads : GilReacquire(t)

Spec == Init /\ [][Next]_vars

\* The behaviours in which the host passes an assignment, an expression that
\* prints and has a value, and NULL: the lifecycle calls do not look at the
\* sources.
LifecycleSources == {"x = 5", "print('a') or 7", NullSrc}

InitLifecycle == InitState /\ srcs = LifecycleSources

SpecLifecycle == InitLifecycle /\ [][Next]_vars

\* The behaviours in which the host passes sources that take the ways out
\* of applepye_execute: NULL, an expression with a value, statements that
\* end, and statements whose fault leaves the wrapper.
PathSources ==
    {NullSrc, "print('a') or 7", "", "print('a'); raise KeyboardInterrupt"}

InitPaths == InitState /\ srcs = PathSources

SpecPaths == InitPaths /\ [][Next]_vars

\* A step of thread t's applepye_execute call after its entry, or its
\* taking the free GIL again.
CallProgress(t) ==
    \/ ReturnEmpty(t) \/ Ensure(t) \/ Construct(t) \/ Bind(t)
    \/ W_save(t) \/ W_newbuf(t) \/ W_redirect(t) \/ W_call(t)
    \/ EvalStep(t) \/ EvalEnd(t) \/ ExecStep(t) \/ ExecEnd(t)
    \/ W_getvalue(t) \/ W_restore(t)
    \/ ReadResult(t) \/ Cleanup(t) \/ Release(t)
    \/ GilReacquire(t)

\* The behaviours under fair scheduling: a thread whose call can take a
\* step again and again takes one (the GIL is handed to a waiting thread
\* after the switch interval, and a thread that has it runs).  The host
\* passes NULL, an expression with a value, statements that end, and
\* statements that raise SystemExit.
FairSources ==
    {NullSrc, "print('a') or 7", "", "print('a'); raise SystemExit"}

InitFair == InitState /\ srcs = FairSources

SpecFair ==
    /\ InitFair
    /\ [][Next]_vars
    /\ \A t \in Threads : SF_vars(CallProgress(t))

(***************************************************************************)
(* What the claims speak of.                                               *)
(***************************************************************************)
\* The call thread t made in this interpreter instance has returned.
Returned(t) == pc[t] = "idle" /\ obs[t].called

\* No other call of applepye_execute overlapped the call of thread t.
Alone(t) == obs[t].alone

\* The call of thread t returned one of the fixed strings, or NULL.
GotDiagnostic(t) ==
    ret[t] \in {NullPtr, CStr(FailedCreate), CStr(FailedSet)}

\* The step is the return of thread t's applepye_execute call.
Returns(t) == pc[t] \in ExecutePcs /\ pc'[t] = "idle"

\* Where a thread is between the return of its PyGILState_Ensure() and its
\* PyGILState_Release() in applepye_execute.
EnsuredPcs == ExecutePcs \ {"nullret", "ensure"}

CounterSrc == "x = globals().get('x', 0) + 1; print(x)"

(***************************************************************************)
(* C1: applepye_execute never returns NULL: whichever way a call leaves,   *)
(* and also when the malloc of _dup_str fails, what it returns is a        *)
(* string.                                                                 *)
(***************************************************************************)
C1_NeverReturnsNull == \A t \in Threads : ret[t] # NullPtr

(***************************************************************************)
(* C2: redirection is always undone: when an applepye_execute call         *)
(* returns, sys.stdout and sys.stderr are the objects they were when the   *)
(* call was entered, whatever the source did.                              *)
(***************************************************************************)
C2_RedirectionUndone ==
    [][\A t \in Threads :
         (Returns(t) /\ Alone(t))
           => <<sys_stdout', sys_stderr'>> = obs'[t].entry]_vars

(***************************************************************************)
(* C3: no fault of the executed source leaves applepye_execute: whatever   *)
(* the source raises, the host process is not ended by it.                 *)
(***************************************************************************)
C3_HostNotTerminated == proc # "exited"

(***************************************************************************)
(* C4: the calls of applepye_execute exclude one another for their whole   *)
(* duration: at most one thread is between its PyGILState_Ensure() and its *)
(* PyGILState_Release().                                                   *)
(***************************************************************************)
C4_MutualExclusion ==
    \A t, u \in Threads :
        (pc[t] \in EnsuredPcs /\ pc[u] \in EnsuredPcs) => t = u

(***************************************************************************)
(* C5: when every thread has called applepye_execute once with the source  *)
(* that increments the global counter x and prints it, starting with x     *)
(* unbound, then x is the number of threads, every call ran the source it  *)
(* was given, and every call returned exactly what its own source printed: *)
(* the calls returned the counter values 1..N, each once.                  *)
(***************************************************************************)
C5_SerializedUpdates ==
    ( /\ ncalls = Cardinality(Threads)
      /\ \A t \in Threads : Returned(t) /\ code_c[t] = CounterSrc
      /\ \A t \in Threads : ~GotDiagnostic(t) )
    => /\ globals["x"] = IntV(Cardinality(Threads))
       /\ \A t \in Threads : obs[t].ran = code_c[t]
       /\ \A t \in Threads : ret[t] = CStr(obs[t].srcOut)
       /\ {ret[t] : t \in Threads} =
             {CStr(PrintText(IntV(n))) : n \in 1..Cardinality(Threads)}

\* The call of thread t ran on its own and came back with what the wrapper
\* left in "result", or with "" when the wrapper left nothing.
Plain(t) == Returned(t) /\ Alone(t) /\ ~GotDiagnostic(t)

(***************************************************************************)
(* C6: the string an applepye_execute call returns is, in write order,     *)
(* everything written to sys.stdout and sys.stderr during the call, output *)
(* written before a later fault included; it is empty exactly when nothing *)
(* was written.                                                            *)
(***************************************************************************)
C6_ReturnsWhatWasWritten ==
    \A t \in Threads :
        Plain(t) => /\ ret[t] = CStr(obs[t].wrote)
                    /\ (ret[t] = CStr(<<>>)) <=> (obs[t].wrote = <<>>)

(***************************************************************************)
(* C7: bindings persist across calls: between calls, every name a source   *)
(* bound is still bound to the value the sources last gave it; and         *)
(* "x + 1", run with x bound to 5, returns "6\n".                          *)
(***************************************************************************)
C7_BindingsPersist ==
    /\ (proc = "running" /\ initialized /\ \A t \in Threads : pc[t] = "idle")
         => \A n \in GNames : bound[n] # Unbound => globals[n] = bound[n]
    /\ \A t \in Threads :
         (Plain(t) /\ code_c[t] = "x + 1" /\ bound["x"] = IntV(5))
           => ret[t] = CStr(<<"6", NL>>)

(***************************************************************************)
(* C8: the value line is added if and only if the source is an expression  *)
(* that yields a value other than None: the call then returns what the     *)
(* source printed followed by the text of the value and a newline; for an  *)
(* expression that yields None and for statements that run without a fault *)
(* it returns exactly what the source printed.                             *)
(***************************************************************************)
C8_ValueLine ==
    \A t \in Threads :
        (Plain(t) /\ obs[t].ran = code_c[t] /\ code_c[t] # NullSrc
           /\ obs[t].fault \in {"", "SyntaxError"} /\ obs[t].stage # "exec")
          => LET hasValue == /\ Program(code_c[t]).expr
                             /\ obs[t].val \notin {Unbound, NoneV}
             IN /\ hasValue => ret[t] = CStr(obs[t].srcOut
                                               \o PrintText(obs[t].val))
                /\ ~hasValue => ret[t] = CStr(obs[t].srcOut)
                /\ hasValue <=> (obs[t].vline # <<>>)

(***************************************************************************)
(* C9: when the source faults while exec() runs it, after eval() faulted   *)
(* too, the call returns a string that is not empty: what the source       *)
(* printed followed by the trace of the fault; and the trace did not go to *)
(* the real standard error.                                                *)
(***************************************************************************)
C9_FaultTraceReturned ==
    \A t \in Threads :
        (Plain(t) /\ obs[t].stage = "exec")
          => /\ ret[t] # CStr(<<>>)
             /\ ret[t] = CStr(obs[t].srcOut \o TraceText(obs[t].fault))
             /\ realErr = obs[t].errAt

(***************************************************************************)
(* C10: the lifecycle calls are idempotent and keep at most one live       *)
(* interpreter: there are never two instances, applepye_initialize on an   *)
(* initialized interpreter returns with nothing changed (no bring-up, the  *)
(* GIL as it was), and applepye_finalize without an interpreter returns    *)
(* with nothing changed.                                                   *)
(***************************************************************************)
C10_LifecycleIdempotent ==
    [][/\ instances' <= 1
       /\ \A t \in Threads :
            (pc[t] = "init" /\ initialized /\ pc'[t] # "init")
              => /\ pc'[t] = "idle"
                 /\ UNCHANGED <<interp, gil, proc, streams, locals, ncalls,
                                hist>>
       /\ \A t \in Threads :
            (pc[t] = "fin" /\ ~initialized /\ pc'[t] # "fin")
              => /\ pc'[t] = "idle"
                 /\ UNCHANGED <<interp, gil, proc, streams, locals, ncalls,
                                hist>>]_vars

\* applepye_initialize was called on a live interpreter and has returned:
\* there is one instance, and nobody holds its GIL.
C10_SecondInitializeReturned ==
    /\ lastOp = "initialize-noop"
    /\ initialized
    /\ instances = 1
    /\ gil = NoThread

\* The step is one of thread t's call applepye_execute(NULL): its entry or
\* its return.
NullCallStep(t) ==
    \/ pc[t] = "idle" /\ pc'[t] = "nullret"
    \/ pc[t] = "nullret" /\ pc'[t] = "idle"

(***************************************************************************)
(* C11: applepye_execute(NULL) returns an empty owned string at once and   *)
(* does nothing else: no step of the call takes the GIL, redirects a       *)
(* channel, touches the namespace or writes to a stream, and what the call *)
(* returns is "".                                                          *)
(***************************************************************************)
C11_NullSourceReturnsEmpty ==
    [][\A t \in Threads :
         NullCallStep(t)
           => /\ UNCHANGED <<interp, gil, proc, streams>>
              /\ pc'[t] = "idle" => ret'[t] = CStr(<<>>)]_vars

\* The step is thread t's return from the failure branch of
\* PyUnicode_FromString or of PyDict_SetItemString.
ConstructFails(t) == pc[t] = "construct" /\ pc'[t] = "idle"
BindFails(t) == pc[t] = "bind" /\ pc'[t] = "idle"

\* The step takes thread t from PyGILState_Ensure() towards the binding of
\* the source.
BeforeBind(t) ==
    \/ pc[t] = "ensure" /\ pc'[t] = "construct"
    \/ pc[t] = "construct" /\ pc'[t] = "bind"

(***************************************************************************)
(* C12: when the source cannot be made a Python string or cannot be bound, *)
(* applepye_execute returns its fixed diagnostic string and stops before   *)
(* the wrapper: the source was not run and nothing was written, no step of *)
(* the call up to there changed the channels, the namespace or the         *)
(* streams, and the failing step gives the GIL up.                         *)
(***************************************************************************)
C12_FailureAbortsBeforeRun ==
    [][\A t \in Threads :
         /\ BeforeBind(t) => UNCHANGED <<interp, proc, streams>>
         /\ (ConstructFails(t) \/ BindFails(t))
              => /\ UNCHANGED <<interp, proc, streams>>
                 /\ gil = t /\ gil' = NoThread
                 /\ obs'[t].ran = NullSrc /\ obs'[t].wrote = <<>>
         /\ ConstructFails(t) => ret'[t] = CStr(FailedCreate)
         /\ BindFails(t) => ret'[t] = CStr(FailedSet)]_vars

(***************************************************************************)
(* C13: an applepye_execute call that took the GIL gives it up exactly     *)
(* once, in the step by which it returns, whichever way it leaves: a       *)
(* thread that is in no call never holds the GIL, every return of a call   *)
(* that is past PyGILState_Ensure() is a step from holding the GIL to the  *)
(* GIL free, and a call frees the GIL in no other step.                    *)
(***************************************************************************)
C13_ReleasedExactlyOnce ==
    /\ [](\A t \in Threads : pc[t] = "idle" => gil # t)
    /\ [][\A t \in Threads :
            /\ (pc[t] \in EnsuredPcs /\ pc'[t] = "idle")
                 => (gil = t /\ gil' = NoThread)
            /\ (pc[t] \in EnsuredPcs /\ gil = t /\ gil' = NoThread)
                 => pc'[t] = "idle"]_vars

\* A call whose source raised KeyboardInterrupt, which left the wrapper,
\* has returned, and the GIL is free.
C13_ReturnedAfterFault ==
    \E t \in Threads :
        /\ Returned(t)
        /\ obs[t].fault = "KeyboardInterrupt"
        /\ gil = NoThread

(***************************************************************************)
(* C14: when applepye_initialize returns, on its first call and on a       *)
(* repeated one, no thread holds the GIL; and whenever the interpreter is  *)
(* live and no thread is inside a call past PyGILState_Ensure(), the GIL   *)
(* is free, so that the PyGILState_Ensure() of a following                 *)
(* applepye_execute call, from any thread, returns.                        *)
(***************************************************************************)
C14_GilFreeAfterInitialize ==
    /\ [][\A t \in Threads :
            (pc[t] \in {"init", "init_save"} /\ pc'[t] = "idle")
              => (initialized' /\ gil' = NoThread)]_vars
    /\ []((/\ proc = "running"
           /\ initialized
           /\ \A t \in Threads : pc[t] \in {"idle", "nullret", "ensure"})
            => gil = NoThread)

\* After applepye_initialize, an applepye_execute call of the thread that
\* initialized has come back from PyGILState_Ensure() with the GIL.
C14_MainThreadAcquired ==
    /\ pc[MainThread] = "construct"
    /\ gil = MainThread
    /\ \A u \in Threads \ {MainThread} : pc[u] = "idle"

\* eval() of the source of thread t's call raised a fault.
EvalFaulted(t) == obs[t].stage # ""

\* exec() of the source of thread t's call was started.
ExecStarted(t) == ~Program(obs[t].ran).expr \/ obs[t].runs = 2

(***************************************************************************)
(* C15: within one call the source is run by exec() if and only if eval()  *)
(* of it raised a fault, of whatever kind; a source eval() runs to its end *)
(* is run once; a source eval() ran into a fault is run a second time in   *)
(* the same namespace, and what it printed before the fault stays, so it   *)
(* is there twice.                                                         *)
(***************************************************************************)
C15_EvalThenExec ==
    \A t \in Threads :
        (obs[t].called /\ obs[t].ran # NullSrc)
          => /\ EvalFaulted(t) <=> ExecStarted(t)
             /\ (Plain(t) /\ obs[t].ran = "print('a') or 7")
                  => /\ obs[t].runs = 1
                     /\ obs[t].srcOut = PrintText(StrV(<<"a">>))
             /\ (Plain(t) /\ obs[t].ran = "print('a') or 1/0")
                  => /\ obs[t].runs = 2
                     /\ obs[t].srcOut = PrintText(StrV(<<"a">>))
                                          \o PrintText(StrV(<<"a">>))

(***************************************************************************)
(* C16: under fair scheduling every applepye_execute call made on a live   *)
(* interpreter gets past PyGILState_Ensure() and returns: a thread that is *)
(* inside a call is eventually out of it, also when an earlier source      *)
(* faulted.                                                                *)
(***************************************************************************)
C16_EveryCallReturns ==
    \A t \in Threads :
        /\ (pc[t] = "ensure" /\ initialized) ~> (pc[t] # "ensure")
        /\ (pc[t] \in ExecutePcs /\ initialized) ~> (pc[t] = "idle")

DelCodeSrc == "del __APPLEPYE_CODE__"

(***************************************************************************)
(* C17: the name __APPLEPYE_CODE__ an applepye_execute call binds is gone  *)
(* from the namespace when the call returns, whatever the source: it is    *)
(* unbound at the return of a call no other call overlapped, and whenever  *)
(* no call is running; and a call whose source deleted the name itself,    *)
(* so that PyDict_DelItemString fails, still returns what was captured.    *)
(***************************************************************************)
C17_CodeBindingRemoved ==
    /\ []((proc = "running" /\ \A t \in Threads : pc[t] = "idle")
            => globals[CODE_KEY] = Unbound)
    /\ [][\A t \in Threads :
            (Returns(t) /\ Alone(t)) => globals'[CODE_KEY] = Unbound]_vars
    /\ [](\A t \in Threads :
            (Returned(t) /\ Alone(t) /\ obs[t].ran = DelCodeSrc)
              => ret[t] = CStr(obs[t].wrote))


(***************************************************************************)
(* C18: applepye_execute and applepye_finalize called while no interpreter *)
(* is initialized, before any applepye_initialize or after                 *)
(* applepye_finalize, do not bring the process down: the guard of          *)
(* applepye_finalize makes the call a no-op that changes nothing of the    *)
(* interpreter, and the first interpreter operation of applepye_execute,   *)
(* PyGILState_Ensure, leaves the process running.                          *)
(***************************************************************************)
C18_UninitializedCallsAreSafe ==
    [][\A t \in Threads :
         /\ (~initialized /\ FinCheck(t))
              => /\ pc'[t] = "idle"
                 /\ proc' = "running"
                 /\ UNCHANGED <<interp, gil, streams>>
         /\ (~initialized /\ Ensure(t)) => proc' = "running"]_vars

(***************************************************************************)
(* C19: no interpreter operation is performed on an interpreter that has   *)
(* been torn down: in applepye_finalize, which goes past its guard only    *)
(* on an initialized interpreter, PyGILState_Ensure, Py_Finalize and       *)
(* PyGILState_Release are all performed while the interpreter is still     *)
(* initialized.                                                            *)
(***************************************************************************)
C19_NoOperationAfterTeardown ==
    [][\A t \in Threads :
         (FinEnsure(t) \/ FinFinalize(t) \/ FinRelease(t)) => initialized]_vars

=============================================================================
